---- MODULE Spec2Model ----
(***************************************************************************)
(* Model of serverchan_notifier.py: the ServerChanNotifier client (send,   *)
(* send_async, notify_success, notify_error, notify_completion), the       *)
(* task_notifier decorator, the global notifier accessors and quick_notify.*)
(*                                                                         *)
(* Python strings are sequences of one-character tokens; a token such as   *)
(* "CHECK_MARK" or "zhi" stands for one code point, and a token such as    *)
(* "SUCCESS_HEADER" for one fixed literal of a template.  None is a value  *)
(* no string is equal to.                                                  *)
(***************************************************************************)
EXTENDS Integers, Sequences, FiniteSets, TLC

VARIABLES
    self,             \* the ServerChanNotifier instance the calls are made on
    last,             \* the latest call on the main thread: operation, arguments
                      \* and what the environment did (HTTP outcome, callable)
    posts,            \* the requests.post calls made: url, data, timeout
    calls,            \* the functions the latest call entered, in order
    ret,              \* what the latest call returned (Nothing when it raised)
    raised,           \* the exception the latest call raised (Nothing when none)
    log,              \* the levels of the records it logged
    global_notifier,  \* the module global _global_notifier
    nextId,           \* identity of the next instance constructed
    lastInit,         \* what the latest init_global_notifier returned
    threads,          \* the threads send_async started
    exited            \* the interpreter has exited

vars == <<self, last, posts, calls, ret, raised, log,
          global_notifier, nextId, lastInit, threads, exited>>

(* ------------------------------ bounds ---------------------------------- *)
MaxTitleLen == 40
MaxShortLen == 70
MaxObjects == 6
MaxThreads == 2

(* --------------------------- Python values ------------------------------ *)
None == <<"<None>">>

\* None where a mapping, an object or an exception is expected
Nothing == [none |-> TRUE]

\* "if x:" on an Optional[str]: None and the empty string are both false
Truthy(x) == x # None /\ x # <<>>

\* s[:n]
Slice(s, n) == SubSeq(s, 1, IF Len(s) < n THEN Len(s) ELSE n)

\* "x or y" on strings
Or(x, y) == IF Truthy(x) THEN x ELSE y

TitleLimit == 32
ShortLimit == 64
DefaultTimeout == 10

Char(i) == IF i % 3 = 0 THEN "c" ELSE IF i % 3 = 1 THEN "a" ELSE "b"
Str(n) == [i \in 1..n |-> Char(i)]

(* ------------------------------ __init__ -------------------------------- *)
ApiUrl(sendkey) == <<"https://sctapi.ftqq.com/">> \o sendkey \o <<".send">>

Notifier(id, sendkey, default_channel) ==
    [id |-> id, sendkey |-> sendkey, default_channel |-> default_channel,
     api_url |-> ApiUrl(sendkey)]

(* --------------------------- send: payload ------------------------------ *)
\* faulty variant: the configured default wins over the per-call channel
ChannelOfDefaultFirst(slf, channel) ==
    IF Truthy(slf.default_channel) THEN slf.default_channel
    ELSE IF Truthy(channel) THEN channel
    ELSE None

ChannelOf(slf, channel) ==
    IF Truthy(channel) THEN channel
    ELSE IF Truthy(slf.default_channel) THEN slf.default_channel
    ELSE None

\* faulty variant: the title is sent as given
TitleOfUncut(title) == title

TitleOf(title) == Slice(title, TitleLimit)

ShortOf(short) == Slice(short, ShortLimit)

PayloadKeys(slf, desp, short, channel, noip, openid) ==
    {"title"}
    \cup (IF Truthy(desp) THEN {"desp"} ELSE {})
    \cup (IF Truthy(short) THEN {"short"} ELSE {})
    \cup (IF ChannelOf(slf, channel) # None THEN {"channel"} ELSE {})
    \cup (IF noip THEN {"noip"} ELSE {})
    \cup (IF Truthy(openid) THEN {"openid"} ELSE {})

Payload(slf, title, desp, short, channel, noip, openid) ==
    [k \in PayloadKeys(slf, desp, short, channel, noip, openid) |->
        CASE k = "title" -> TitleOf(title)
          [] k = "desp" -> desp
          [] k = "short" -> ShortOf(short)
          [] k = "channel" -> ChannelOf(slf, channel)
          [] k = "noip" -> <<"1">>
          [] k = "openid" -> openid]

(* ----------------------- send: try / except ----------------------------- *)
\* classes an exception of class cls is an instance of
Mro(cls) ==
    CASE cls \in {"ConnectionError", "Timeout", "HTTPError"} ->
            {cls, "RequestException", "OSError", "Exception", "BaseException"}
      [] cls = "requests.JSONDecodeError" ->
            {cls, "RequestException", "json.JSONDecodeError", "ValueError",
             "OSError", "Exception", "BaseException"}
      [] cls = "json.JSONDecodeError" ->
            {cls, "ValueError", "Exception", "BaseException"}
      [] cls = "simplejson.JSONDecodeError" ->
            {cls, "ValueError", "Exception", "BaseException"}
      [] cls \in {"KeyError", "TypeError", "AttributeError", "ValueError",
                  "RuntimeError"} ->
            {cls, "Exception", "BaseException"}
      [] OTHER -> {cls, "BaseException"}

IsInstance(e, cls) == cls \in Mro(e.cls)

Exc(cls, msg) == [cls |-> cls, msg |-> msg]

\* str(e)
StrOf(e) == e.msg

\* faulty variant: any response that carries a code is taken for a success
CodeIsPresent(result) == "code" \in DOMAIN result

CodeIsZero(result) == "code" \in DOMAIN result /\ result.code = 0

\* lines 78-93: what the try block does with the outcome of the HTTP round trip
TryBody(out) ==
    CASE out.kind \in {"ConnectionError", "Timeout", "HTTPError"} ->
            [kind |-> "raise", exc |-> Exc(out.kind, out.msg)]
      [] out.kind = "JSONDecodeError" ->
            [kind |-> "raise", exc |-> Exc(out.cls, out.msg)]
      [] out.kind = "json" /\ ~out.isdict ->
            [kind |-> "raise",
             exc |-> Exc("AttributeError", <<"no attribute 'get'">>)]
      [] out.kind = "json" /\ out.isdict ->
            IF CodeIsZero(out.body)
            THEN IF "data" \notin DOMAIN out.body
                 THEN [kind |-> "raise", exc |-> Exc("KeyError", <<"'data'">>)]
                 ELSE IF ~out.body.data.isdict
                 THEN [kind |-> "raise",
                       exc |-> Exc("TypeError", <<"indices must be integers">>)]
                 ELSE IF "pushid" \notin DOMAIN out.body.data
                 THEN [kind |-> "raise", exc |-> Exc("KeyError", <<"'pushid'">>)]
                 ELSE [kind |-> "return", value |-> out.body, log |-> "info"]
            ELSE [kind |-> "return", value |-> out.body, log |-> "warning"]

ExceptClauses == <<"RequestException", "json.JSONDecodeError", "Exception">>

ExceptPrefix == <<"NETWORK_ERROR: ", "JSON_ERROR: ", "UNKNOWN_ERROR: ">>

SentinelCode == -1

\* faulty variant: the last, catch-all except clause is missing
HandleNoCatchAll(e) ==
    IF IsInstance(e, "RequestException")
    THEN [ret |-> [code |-> SentinelCode,
                   message |-> <<ExceptPrefix[1]>> \o StrOf(e)],
          raised |-> Nothing, log |-> "error"]
    ELSE [ret |-> Nothing, raised |-> e, log |-> "none"]

\* lines 95-103: the first except clause the exception is an instance of
Handle(e) ==
    LET hit == {i \in 1..Len(ExceptClauses) : IsInstance(e, ExceptClauses[i])}
    IN IF hit = {}
       THEN [ret |-> Nothing, raised |-> e, log |-> "none"]
       ELSE LET i == CHOOSE j \in hit : \A k \in hit : j <= k
            IN [ret |-> [code |-> SentinelCode,
                         message |-> <<ExceptPrefix[i]>> \o StrOf(e)],
                raised |-> Nothing, log |-> "error"]

\* ServerChanNotifier.send
Send(slf, title, desp, short, channel, noip, openid, timeout, out) ==
    LET t == TryBody(out)
        r == IF t.kind = "raise" THEN Handle(t.exc)
             ELSE [ret |-> t.value, raised |-> Nothing, log |-> t.log]
    IN [post |-> [url |-> slf.api_url,
                  data |-> Payload(slf, title, desp, short, channel, noip, openid),
                  timeout |-> timeout],
        ret |-> r.ret, raised |-> r.raised, log |-> r.log]

(* ------------------------ message templates ----------------------------- *)
NoTime == -1

Digit(d) == <<"0", "1", "2", "3", "4", "5", "6", "7", "8", "9">>[d + 1]

RECURSIVE IntStr(_)
IntStr(n) == IF n < 10 THEN <<Digit(n)>> ELSE IntStr(n \div 10) \o <<Digit(n % 10)>>

\* f"{execution_time:.2f}" of a duration given in milliseconds
Fmt2(ms) ==
    LET c == (ms + 5) \div 10
    IN IntStr(c \div 100) \o <<".", Digit((c \div 10) % 10), Digit(c % 10)>>

SuccessTitle(task_name) ==
    <<"CHECK_MARK", " ">> \o task_name \o <<" ", "zhi", "xing", "cheng", "gong">>

SuccessDesp(task_name, execution_time, additional_info, now) ==
    <<"SUCCESS_HEADER">> \o task_name \o <<"FINISHED_AT">> \o now \o <<"\n">>
    \o (IF execution_time # NoTime
        THEN <<"DURATION">> \o Fmt2(execution_time) \o <<"SECONDS">> ELSE <<>>)
    \o (IF Truthy(additional_info) THEN <<"DETAILS">> \o additional_info ELSE <<>>)

ErrorTitle(task_name) ==
    <<"CROSS_MARK", " ">> \o task_name \o <<" ", "zhi", "xing", "shi", "bai">>

ErrorDesp(task_name, error_message, execution_time, now) ==
    <<"ERROR_HEADER">> \o task_name \o <<"FAILED_AT">> \o now
    \o <<"ERROR_MESSAGE">> \o error_message \o <<"\n">>
    \o (IF execution_time # NoTime
        THEN <<"DURATION">> \o Fmt2(execution_time) \o <<"SECONDS">> ELSE <<>>)

UnknownError == <<"wei", "zhi", "cuo", "wu">>

\* **kwargs of the template helpers, handed on to send
NoKwargs == [short |-> None, channel |-> None, noip |-> FALSE, openid |-> None,
             timeout |-> DefaultTimeout]

\* the result of a template call: the send it made and the helpers on the way
Sent(trace, title, desp, r) ==
    [calls |-> trace, title |-> title, desp |-> desp, post |-> r.post,
     ret |-> r.ret, raised |-> r.raised, log |-> r.log]

\* ServerChanNotifier.notify_success
notify_success(slf, task_name, execution_time, additional_info, kw, now, out) ==
    LET title == SuccessTitle(task_name)
        desp == SuccessDesp(task_name, execution_time, additional_info, now)
    IN Sent(<<"notify_success", "send">>, title, desp,
            Send(slf, title, desp, kw.short, kw.channel, kw.noip, kw.openid,
                 kw.timeout, out))

\* ServerChanNotifier.notify_error
notify_error(slf, task_name, error_message, execution_time, kw, now, out) ==
    LET title == ErrorTitle(task_name)
        desp == ErrorDesp(task_name, error_message, execution_time, now)
    IN Sent(<<"notify_error", "send">>, title, desp,
            Send(slf, title, desp, kw.short, kw.channel, kw.noip, kw.openid,
                 kw.timeout, out))

\* faulty variant: the message is handed on without the placeholder default
notify_completion_nodefault(slf, task_name, success, execution_time, message, kw, now, out) ==
    LET r == IF success
             THEN notify_success(slf, task_name, execution_time, message, kw, now, out)
             ELSE notify_error(slf, task_name, message, execution_time, kw, now, out)
    IN [r EXCEPT !.calls = <<"notify_completion">> \o r.calls]

\* ServerChanNotifier.notify_completion
notify_completion(slf, task_name, success, execution_time, message, kw, now, out) ==
    LET r == IF success
             THEN notify_success(slf, task_name, execution_time, message, kw, now, out)
             ELSE notify_error(slf, task_name, Or(message, UnknownError),
                               execution_time, kw, now, out)
    IN [r EXCEPT !.calls = <<"notify_completion">> \o r.calls]

(* ------------------------- input domains -------------------------------- *)
SendKeys == {<<"K">>}
Channels == {None, <<>>, <<"9">>}
Defaults == {None, <<>>, <<"1", "8">>}
Titles == {Str(1), Str(TitleLimit), Str(MaxTitleLen)}
\* title and short of a send call
TitleShorts == { <<Str(1), None>>, <<Str(TitleLimit), Str(ShortLimit)>>,
                 <<Str(MaxTitleLen), Str(MaxShortLen)>>, <<<<>>, <<>>>> }
\* desp, noip, openid of a send call
Options == { <<None, FALSE, None>>, <<<<"d">>, TRUE, <<>>>>, <<<<>>, FALSE, <<"o">>>> }
TaskNames == {<<"j", "o", "b">>, Str(TitleLimit - 4)}
ExecTimes == {NoTime, 1234}
Infos == {None, <<"i">>}
Messages == {None, <<>>, <<"m">>}
ErrorMessages == {<<"boom">>, <<>>}
Kwargs == {NoKwargs, [NoKwargs EXCEPT !.channel = <<"9">>]}
\* datetime.now().strftime('%Y-%m-%d %H:%M:%S')
Clocks == {<<"2026-11-06 00:39:11">>}

Bodies ==
    { [code |-> 0, message |-> <<"ok">>, data |-> [isdict |-> TRUE, pushid |-> 7]],
      [code |-> 0, message |-> <<"ok">>],
      [code |-> 0, message |-> <<"ok">>, data |-> [isdict |-> TRUE]],
      [code |-> 0, message |-> <<"ok">>, data |-> [isdict |-> FALSE]],
      [code |-> 1, message |-> <<"invalid key">>],
      [code |-> SentinelCode, message |-> <<"provider">>],
      [message |-> <<"no code">>] }

JsonOutcome(b) == [kind |-> "json", isdict |-> TRUE, body |-> b]

Outcomes ==
    { [kind |-> k, msg |-> <<"refused">>] : k \in {"ConnectionError", "Timeout", "HTTPError"} }
    \cup { [kind |-> "JSONDecodeError", cls |-> c, msg |-> <<"Expecting value">>] :
              c \in {"requests.JSONDecodeError", "json.JSONDecodeError",
                     "simplejson.JSONDecodeError"} }
    \cup { [kind |-> "json", isdict |-> FALSE, body |-> [message |-> <<>>]] }
    \cup { JsonOutcome(b) : b \in Bodies }

\* the outcomes the template helpers and the decorator are exercised with
FewOutcomes ==
    { o \in Outcomes :
        \/ o.kind = "ConnectionError"
        \/ o.kind = "json" /\ o.isdict /\ "code" \in DOMAIN o.body
           /\ o.body.code = 0 /\ "data" \in DOMAIN o.body
           /\ "pushid" \in DOMAIN o.body.data
        \/ o.kind = "json" /\ o.isdict /\ "code" \in DOMAIN o.body
           /\ o.body.code = 1 }

(* ------------------------------- state ---------------------------------- *)
Init ==
    /\ self \in {Notifier(1, k, d) : k \in SendKeys, d \in Defaults}
    /\ last = [op |-> "init"]
    /\ posts = <<>>
    /\ calls = <<>>
    /\ ret = Nothing
    /\ raised = Nothing
    /\ log = <<>>
    /\ global_notifier = Nothing
    /\ nextId = 2
    /\ lastInit = Nothing
    /\ threads = <<>>
    /\ exited = FALSE

\* what a call on the main thread leaves behind
Returned(result) ==
    \E r \in {result} :
       /\ posts' = <<r.post>>
       /\ calls' = r.calls
       /\ ret' = r.ret
       /\ raised' = r.raised
       /\ log' = <<r.log>>

\* notifier.send(title, desp, short, channel, noip, openid)
SendCall ==
    \E ts \in TitleShorts, channel \in Channels, opt \in Options, out \in Outcomes :
       /\ last' = [op |-> "send", title |-> ts[1], desp |-> opt[1],
                   short |-> ts[2], channel |-> channel, noip |-> opt[2],
                   openid |-> opt[3], out |-> out]
       /\ Returned(Sent(<<"send">>, ts[1], opt[1],
                        Send(self, ts[1], opt[1], ts[2], channel, opt[2], opt[3],
                             DefaultTimeout, out)))
       /\ UNCHANGED <<self, global_notifier, nextId, lastInit, threads, exited>>

\* notifier.notify_success(task_name, execution_time, additional_info, **kw)
NotifySuccessCall ==
    \E task \in TaskNames, t \in ExecTimes, info \in Infos, kw \in Kwargs,
       now \in Clocks, out \in FewOutcomes :
       /\ last' = [op |-> "notify_success", task_name |-> task,
                   execution_time |-> t, additional_info |-> info, kw |-> kw,
                   now |-> now, out |-> out]
       /\ Returned(notify_success(self, task, t, info, kw, now, out))
       /\ UNCHANGED <<self, global_notifier, nextId, lastInit, threads, exited>>

\* notifier.notify_error(task_name, error_message, execution_time, **kw)
NotifyErrorCall ==
    \E task \in TaskNames, msg \in ErrorMessages, t \in ExecTimes, kw \in Kwargs,
       now \in Clocks, out \in FewOutcomes :
       /\ last' = [op |-> "notify_error", task_name |-> task,
                   error_message |-> msg, execution_time |-> t, kw |-> kw,
                   now |-> now, out |-> out]
       /\ Returned(notify_error(self, task, msg, t, kw, now, out))
       /\ UNCHANGED <<self, global_notifier, nextId, lastInit, threads, exited>>

\* notifier.notify_completion(task_name, success, execution_time, message, **kw)
NotifyCompletionCall ==
    \E task \in TaskNames, success \in BOOLEAN, t \in ExecTimes,
       msg \in Messages, kw \in Kwargs, now \in Clocks, out \in FewOutcomes :
       /\ last' = [op |-> "notify_completion", task_name |-> task,
                   success |-> success, execution_time |-> t, message |-> msg,
                   kw |-> kw, now |-> now, out |-> out]
       /\ Returned(notify_completion(self, task, success, t, msg, kw, now, out))
       /\ UNCHANGED <<self, global_notifier, nextId, lastInit, threads, exited>>

\* quick_notify(sendkey, title, message)
QuickNotify ==
    \E k \in SendKeys, title \in Titles, message \in {<<>>, <<"m">>},
       out \in FewOutcomes :
       /\ last' = [op |-> "quick_notify", sendkey |-> k, title |-> title,
                   message |-> message, out |-> out]
       /\ Returned(Sent(<<"send">>, title, message,
                        Send(Notifier(nextId, k, None), title, message, None, None,
                             FALSE, None, DefaultTimeout, out)))
       /\ UNCHANGED <<self, global_notifier, nextId, lastInit, threads, exited>>

(* ------------------------- task_notifier -------------------------------- *)
HasName(func) == func.name # None

\* faulty variant: the error is notified and then swallowed
WrapperExceptSwallow(notifier, task_name, e, args, before, t, now, out) ==
    LET n == notify_error(notifier, task_name, StrOf(e), t, NoKwargs, now, out)
    IN [calls |-> before \o n.calls, posts |-> <<n.post>>, log |-> <<n.log>>,
        received |-> args, ret |-> Nothing, raised |-> n.raised]

\* lines 243-250: notify_error with str(e), then raise e
WrapperExcept(notifier, task_name, e, args, before, t, now, out) ==
    LET n == notify_error(notifier, task_name, StrOf(e), t, NoKwargs, now, out)
    IN [calls |-> before \o n.calls, posts |-> <<n.post>>, log |-> <<n.log>>,
        received |-> args, ret |-> Nothing,
        raised |-> IF n.raised # Nothing THEN n.raised ELSE e]

\* lines 235-242: notify_success after func returned value, then return it
WrapperReturn(notifier, task_name, func, value, args, t, now, out) ==
    LET n == notify_success(notifier, task_name, t,
                            <<"FUNC", " ">> \o func.name \o <<" ", "OK">>,
                            NoKwargs, now, out)
    IN IF n.raised = Nothing
       THEN [calls |-> <<"func">> \o n.calls, posts |-> <<n.post>>,
             log |-> <<n.log>>, received |-> args, ret |-> value,
             raised |-> Nothing]
       ELSE IF IsInstance(n.raised, "Exception")
       THEN LET x == WrapperExcept(notifier, task_name, n.raised, args,
                                   <<"func">> \o n.calls, t, now, out)
            IN [x EXCEPT !.posts = <<n.post>> \o x.posts,
                         !.log = <<n.log>> \o x.log]
       ELSE [calls |-> <<"func">> \o n.calls, posts |-> <<n.post>>,
             log |-> <<n.log>>, received |-> args, ret |-> Nothing,
             raised |-> n.raised]

\* the wrapper task_notifier(sendkey, task_name)(func) called with args; fo is
\* what func does, t the elapsed time the two time.time() readings give
Wrapper(id, sendkey, task_name, func, args, fo, t, now, out) ==
    LET notifier == Notifier(id, sendkey, None)
        actual_task_name == Or(task_name, func.name)
        NoAttr == Exc("AttributeError", <<"no attribute '__name__'">>)
    IN IF ~Truthy(task_name) /\ ~HasName(func)
       THEN [calls |-> <<>>, posts |-> <<>>, log |-> <<>>, received |-> Nothing,
             ret |-> Nothing, raised |-> NoAttr]
       ELSE IF fo.kind = "raise"
       THEN IF IsInstance(fo.exc, "Exception")
            THEN WrapperExcept(notifier, actual_task_name, fo.exc, args,
                               <<"func">>, t, now, out)
            ELSE [calls |-> <<"func">>, posts |-> <<>>, log |-> <<>>,
                  received |-> args, ret |-> Nothing, raised |-> fo.exc]
       ELSE IF ~HasName(func)
       THEN WrapperExcept(notifier, actual_task_name, NoAttr, args,
                          <<"func">>, t, now, out)
       ELSE WrapperReturn(notifier, actual_task_name, func, fo.value, args,
                          t, now, out)

DecoratorNames == {None, <<"j", "o", "b">>}
\* a def function, and a callable without __name__ (a functools.partial)
Funcs == {[name |-> <<"f">>], [name |-> None]}
FuncArgs == {[args |-> <<1>>], [args |-> <<2, 3>>]}
FuncOutcomes ==
    { [kind |-> "return", value |-> [value |-> v]] : v \in {1, 2} }
    \cup { [kind |-> "raise", exc |-> e] :
             e \in {Exc("ValueError", <<"boom">>), Exc("RuntimeError", <<>>),
                    Exc("KeyboardInterrupt", <<>>)} }
Elapsed == {0, 1234}

WrapperCall ==
    \E k \in SendKeys, task \in DecoratorNames, func \in Funcs, args \in FuncArgs,
       fo \in FuncOutcomes, t \in Elapsed, now \in Clocks, out \in FewOutcomes :
       \E r \in {Wrapper(nextId, k, task, func, args, fo, t, now, out)} :
          /\ last' = [op |-> "wrapper", sendkey |-> k, task_name |-> task,
                      func |-> func, args |-> args, fo |-> fo, t |-> t,
                      now |-> now, out |-> out, received |-> r.received]
          /\ posts' = r.posts
          /\ calls' = r.calls
          /\ ret' = r.ret
          /\ raised' = r.raised
          /\ log' = r.log
          /\ UNCHANGED <<self, global_notifier, nextId, lastInit, threads, exited>>

(* ------------------------- global notifier ------------------------------ *)
GlobalKeys == {<<"K">>, <<"G">>}

\* init_global_notifier(sendkey, default_channel)
init_global_notifier(id, sendkey, default_channel) ==
    LET n == Notifier(id, sendkey, default_channel)
    IN [global |-> n, ret |-> n, raised |-> Nothing]

\* faulty variant: an instance is made up when none was initialized
get_global_notifier_lazy(global) ==
    IF global = Nothing
    THEN [global |-> Notifier(0, <<"K">>, None), ret |-> Notifier(0, <<"K">>, None),
          raised |-> Nothing]
    ELSE [global |-> global, ret |-> global, raised |-> Nothing]

\* get_global_notifier()
get_global_notifier(global) ==
    IF global = Nothing
    THEN [global |-> global, ret |-> Nothing,
          raised |-> Exc("ValueError", <<"NOT_INITIALIZED">>)]
    ELSE [global |-> global, ret |-> global, raised |-> Nothing]

InitGlobalCall ==
    /\ nextId <= MaxObjects
    /\ \E k \in GlobalKeys, d \in Defaults :
          LET r == init_global_notifier(nextId, k, d)
          IN /\ global_notifier' = r.global
             /\ ret' = r.ret
             /\ raised' = r.raised
             /\ lastInit' = r.ret
    /\ nextId' = nextId + 1
    /\ last' = [op |-> "init_global_notifier"]
    /\ posts' = <<>>
    /\ calls' = <<>>
    /\ log' = <<>>
    /\ UNCHANGED <<self, threads, exited>>

GetGlobalCall ==
    LET r == get_global_notifier(global_notifier)
    IN /\ global_notifier' = r.global
       /\ ret' = r.ret
       /\ raised' = r.raised
       /\ last' = [op |-> "get_global_notifier"]
       /\ posts' = <<>>
       /\ calls' = <<>>
       /\ log' = <<>>
       /\ UNCHANGED <<self, nextId, lastInit, threads, exited>>

(* ----------------------------- send_async ------------------------------- *)
\* faulty variant: thread.daemon = True is missing
StartThreadNonDaemon(args) == [daemon |-> FALSE, state |-> "started", args |-> args]

\* threading.Thread(target=async_send); thread.daemon = True; thread.start()
StartThread(args) == [daemon |-> TRUE, state |-> "started", args |-> args]

AsyncArgs ==
    { [title |-> Str(1), desp |-> None, kw |-> NoKwargs],
      [title |-> Str(MaxTitleLen), desp |-> <<"d">>, kw |-> NoKwargs],
      [title |-> Str(1), desp |-> <<"d">>,
       kw |-> [NoKwargs EXCEPT !.channel = <<"9">>]] }

\* notifier.send_async(title, desp, **kwargs)
SendAsyncCall ==
    /\ ~exited
    /\ Len(threads) < MaxThreads
    /\ \E a \in AsyncArgs :
          /\ threads' = Append(threads, StartThread(a))
          /\ last' = [op |-> "send_async", args |-> a]
    /\ ret' = [thread |-> Len(threads) + 1]
    /\ raised' = Nothing
    /\ calls' = <<"send_async">>
    /\ UNCHANGED <<self, posts, log, global_notifier, nextId, lastInit, exited>>

\* the background thread runs async_send: self.send(title, desp, **kwargs)
ThreadRun ==
    /\ ~exited
    /\ \E h \in DOMAIN threads, out \in FewOutcomes :
          /\ threads[h].state = "started"
          /\ \E r \in {Send(self, threads[h].args.title, threads[h].args.desp,
                            threads[h].args.kw.short, threads[h].args.kw.channel,
                            threads[h].args.kw.noip, threads[h].args.kw.openid,
                            threads[h].args.kw.timeout, out)} :
                /\ posts' = Append(posts, r.post)
                /\ log' = Append(log, r.log)
                /\ threads' = [threads EXCEPT ![h].state =
                                  IF r.raised = Nothing THEN "finished" ELSE "died"]
    /\ UNCHANGED <<self, last, calls, ret, raised, global_notifier, nextId,
                   lastInit, exited>>

\* interpreter shutdown: waits for the non-daemon threads only
ExitBlocked == \E h \in DOMAIN threads : threads[h].state = "started" /\ ~threads[h].daemon

ProcessExit ==
    /\ ~exited
    /\ ~ExitBlocked
    /\ exited' = TRUE
    /\ threads' = [h \in DOMAIN threads |->
                      IF threads[h].state = "started"
                      THEN [threads[h] EXCEPT !.state = "abandoned"]
                      ELSE threads[h]]
    /\ UNCHANGED <<self, last, posts, calls, ret, raised, log, global_notifier,
                   nextId, lastInit>>

Next ==
    \/ SendCall
    \/ NotifySuccessCall
    \/ NotifyErrorCall
    \/ NotifyCompletionCall
    \/ QuickNotify

Spec == Init /\ [][Next]_vars

NextWrapper == WrapperCall

SpecWrapper == Init /\ [][NextWrapper]_vars

NextGlobal == InitGlobalCall \/ GetGlobalCall

SpecGlobal == Init /\ [][NextGlobal]_vars

NextAsync == SendAsyncCall \/ ThreadRun \/ ProcessExit

SpecAsync == Init /\ [][NextAsync]_vars

(* ------------------------------- claims --------------------------------- *)
\* the calls of Spec, each of which makes one send
SendOps == {"send", "notify_success", "notify_error", "notify_completion",
            "quick_notify"}

\* sub occurs in s
Contains(s, sub) ==
    \E i \in 0..(Len(s) - Len(sub)) : SubSeq(s, i + 1, i + Len(sub)) = sub

Count(seq, x) == Cardinality({i \in DOMAIN seq : seq[i] = x})

\* the round trip failed locally: transport failure, undecodable body, or a
\* decoded body that is no mapping
LocalFailure(out) == out.kind # "json" \/ ~out.isdict

ProviderBody(out) == out.kind = "json" /\ out.isdict /\ "code" \in DOMAIN out.body

\* C1: no call of send raises; a transport failure, an undecodable body or
\* another failure of the send steps yields {code: -1, message: non-empty}.
C1_FailuresAreCaught ==
    last.op \in SendOps =>
        /\ raised = Nothing
        /\ LocalFailure(last.out) =>
              /\ DOMAIN ret = {"code", "message"}
              /\ ret.code = -1
              /\ Len(ret.message) > 0
              /\ log = <<"error">>
        /\ ~LocalFailure(last.out) =>
              \/ ret = last.out.body
              \/ /\ DOMAIN ret = {"code", "message"}
                 /\ ret.code = -1
                 /\ Len(ret.message) > 0
                 /\ log = <<"error">>

C1_Witness ==
    /\ last.op = "send"
    /\ last.out.kind = "ConnectionError"
    /\ raised = Nothing
    /\ ret.code = -1

\* C2: a decoded response with a non-zero code is returned exactly as the
\* provider sent it, with a warning logged; it is never replaced by the
\* local failure result.
C2_ProviderFailureUnchanged ==
    (last.op \in SendOps /\ ProviderBody(last.out) /\ last.out.body.code # 0) =>
        /\ raised = Nothing
        /\ ret = last.out.body
        /\ (last.out.body.code # -1 => ret.code # -1)
        /\ log = <<"warning">>

C2_Witness ==
    /\ last.op = "send"
    /\ ProviderBody(last.out)
    /\ ret = [code |-> 1, message |-> <<"invalid key">>]

\* C3: whenever the decoded response reports code 0, send returns it
\* unmodified, also when it carries no data.pushid.
C3_SuccessUnchanged ==
    (last.op \in SendOps /\ ProviderBody(last.out) /\ last.out.body.code = 0) =>
        /\ raised = Nothing
        /\ ret = last.out.body

\* C4: when the wrapped callable raises an error (an Exception), the wrapper
\* makes exactly one notify_error carrying str(error), no notify_success, and
\* then raises that same error, whatever the outcome of the notification.
C4_ErrorNotifiedAndReraised ==
    (/\ last.op = "wrapper"
     /\ last.received # Nothing
     /\ last.fo.kind = "raise"
     /\ IsInstance(last.fo.exc, "Exception")) =>
        /\ Count(calls, "func") = 1
        /\ Count(calls, "notify_error") = 1
        /\ Count(calls, "notify_success") = 0
        /\ Len(posts) = 1
        /\ posts[1].data.title[1] = "CROSS_MARK"
        /\ Contains(posts[1].data.desp, <<"ERROR_MESSAGE">> \o last.fo.exc.msg)
        /\ raised = last.fo.exc
        /\ ret = Nothing

C4_Witness ==
    /\ last.op = "wrapper"
    /\ last.fo.kind = "raise"
    /\ raised = Exc("ValueError", <<"boom">>)
    /\ last.out.kind = "ConnectionError"
    /\ Count(calls, "notify_error") = 1
    /\ Contains(posts[1].data.desp, <<"boom">>)

\* C5: when the wrapped callable was invoked and returned normally, it was
\* invoked exactly once with the original arguments, exactly one notify_success
\* and no notify_error was made, and the wrapper returns the callable's result.
C5_ResultReturned ==
    (last.op = "wrapper" /\ last.received # Nothing /\ last.fo.kind = "return") =>
        /\ Count(calls, "func") = 1
        /\ last.received = last.args
        /\ Count(calls, "notify_success") = 1
        /\ Count(calls, "notify_error") = 0
        /\ raised = Nothing
        /\ ret = last.fo.value

\* C6: get_global_notifier before any init_global_notifier raises ValueError
\* and leaves the global unset; after an initialization it returns the very
\* instance the latest init_global_notifier returned, on every call.
C6_GlobalAccessor ==
    last.op = "get_global_notifier" =>
        IF lastInit = Nothing
        THEN /\ raised # Nothing
             /\ raised.cls = "ValueError"
             /\ ret = Nothing
             /\ global_notifier = Nothing
        ELSE /\ raised = Nothing
             /\ ret = lastInit
             /\ global_notifier = lastInit

C6_Witness ==
    /\ last.op = "get_global_notifier"
    /\ lastInit # Nothing
    /\ ret = lastInit
    /\ ret.id > 2

\* a value was supplied: neither None nor empty (the spec omits "absent
\* optional fields rather than sending empty/null values")
Provided(x) == x # None /\ Len(x) > 0

\* C7: the channel sent is the per-call channel when one is provided, else
\* the configured default when one is provided, else no channel field is sent.
C7_ChannelResolution ==
    last.op = "send" =>
        IF Provided(last.channel)
        THEN "channel" \in DOMAIN posts[1].data
             /\ posts[1].data.channel = last.channel
        ELSE IF Provided(self.default_channel)
        THEN "channel" \in DOMAIN posts[1].data
             /\ posts[1].data.channel = self.default_channel
        ELSE "channel" \notin DOMAIN posts[1].data

C7_Witness ==
    /\ last.op = "send"
    /\ last.channel = <<"9">>
    /\ self.default_channel = <<"1", "8">>
    /\ posts[1].data.channel = <<"9">>

\* the title a call of Spec hands to send
TitleGiven ==
    CASE last.op \in {"send", "quick_notify"} -> last.title
      [] last.op = "notify_success" -> SuccessTitle(last.task_name)
      [] last.op = "notify_error" -> ErrorTitle(last.task_name)
      [] last.op = "notify_completion" ->
            IF last.success THEN SuccessTitle(last.task_name)
            ELSE ErrorTitle(last.task_name)

\* C8: a title longer than 32 characters is sent as its first 32 characters,
\* a title of at most 32 characters is sent unchanged, for send and for the
\* titles the template helpers generate.
C8_TitleTruncated ==
    last.op \in SendOps =>
        /\ Len(TitleGiven) > 32 =>
              /\ Len(posts[1].data.title) = 32
              /\ \A i \in 1..32 : posts[1].data.title[i] = TitleGiven[i]
        /\ Len(TitleGiven) <= 32 => posts[1].data.title = TitleGiven

C8_Witness ==
    /\ last.op = "send"
    /\ Len(last.title) > 32
    /\ Len(posts[1].data.title) = 32

\* C9: send_async starts one daemon thread running send and returns its handle
\* without sending or waiting; the background send changes nothing the caller
\* got back, and a started thread never blocks process exit.
C9_Handles ==
    /\ \A h \in DOMAIN threads : threads[h].daemon
    /\ ~ExitBlocked
    /\ last.op = "send_async" =>
          /\ raised = Nothing
          /\ ret.thread \in DOMAIN threads
          /\ threads[ret.thread].args = last.args

C9_Started ==
    Len(threads') > Len(threads) =>
        /\ Len(threads') = Len(threads) + 1
        /\ threads'[Len(threads')].state = "started"
        /\ ret' = [thread |-> Len(threads')]
        /\ posts' = posts

C9_Ran ==
    (\E h \in DOMAIN threads :
        threads[h].state = "started" /\ threads'[h].state \in {"finished", "died"}) =>
        /\ ret' = ret
        /\ raised' = raised
        /\ last' = last
        /\ Len(posts') = Len(posts) + 1

C9_FireAndForget == [](C9_Handles) /\ [][C9_Started /\ C9_Ran]_vars

C9_Witness ==
    /\ last.op = "send_async"
    /\ threads[ret.thread].state = "started"
    /\ \E h \in DOMAIN threads : threads[h].state = "finished"

\* C10: notify_completion with success and no message sends what
\* notify_success(task, t, None) sends, with no details line; with failure and
\* no message it sends what notify_error(task, placeholder, t) sends; exactly
\* one of the two templates is used.
C10_CompletionDispatch ==
    last.op = "notify_completion" =>
        /\ Count(calls, "notify_success") + Count(calls, "notify_error") = 1
        /\ Count(calls, "notify_success") = (IF last.success THEN 1 ELSE 0)
        /\ (last.success /\ last.message = None) =>
              /\ posts[1] = notify_success(self, last.task_name, last.execution_time,
                                           None, last.kw, last.now, last.out).post
              /\ posts[1].data.title[1] = "CHECK_MARK"
              /\ ~Contains(posts[1].data.desp, <<"DETAILS">>)
        /\ (~last.success /\ last.message = None) =>
              /\ posts[1] = notify_error(self, last.task_name, UnknownError,
                                         last.execution_time, last.kw, last.now,
                                         last.out).post
              /\ posts[1].data.title[1] = "CROSS_MARK"
              /\ Contains(posts[1].data.desp, <<"ERROR_MESSAGE">> \o UnknownError)

C10_Witness ==
    /\ last.op = "notify_completion"
    /\ ~last.success
    /\ last.message = None
    /\ last.execution_time = NoTime
    /\ Contains(posts[1].data.desp, UnknownError)

====
